---- MODULE Spec2Model ----
(***************************************************************************)
(* Model of the Ethereum block summary API (src/app.py): the GET /block    *)
(* handler, the JSON-RPC client it calls, the block-identifier translation *)
(* and the block summarizer.                                               *)
(*                                                                         *)
(* Python strings that the code inspects character by character (the hex   *)
(* block identifier, the block's `number` field) are sequences of          *)
(* one-character strings; addresses and error payloads, which the code     *)
(* only compares and uses as dictionary keys, are TLA+ strings.            *)
(* A Python exception is a record [ok |-> FALSE, exc, msg]; a returned     *)
(* value is [ok |-> TRUE, val].                                            *)
(***************************************************************************)
EXTENDS Integers, Sequences, FiniteSets, TLC

VARIABLES
    pc,          \* where the request (or the direct call) stands
    number,      \* the `number` query parameter / the block_number argument
    block_id,    \* the block identifier sent to the RPC endpoint
    rpc_calls,   \* calls of call_rpc (of requests.post) made for the request
    wire,        \* what requests.post has done: the methods of the requests
                 \* it has sent, the redirects it has followed, the method
                 \* of the request it is attempting (or attempted last)
    inflight,    \* requests.post has not returned or raised yet
    response,    \* what the transport delivered for the POST
    status,      \* HTTP status of the /block response, 0 before it exists
    detail,      \* the HTTPException detail of a failed request
    summary,     \* the body of a 200 response
    summarized,  \* process_block was applied during the request
    block,       \* the argument of a direct process_block call
    ret          \* what a direct call returned or raised

vars == <<pc, number, block_id, rpc_calls, wire, inflight, response, status,
          detail, summary, summarized, block, ret>>

(* ------------------------------ bounds --------------------------------- *)

\* Largest block number a request (or a direct call) carries.
MaxNumber == 300
\* Most negative block number a request carries is -MaxNegative.
MaxNegative == 2
\* Longest `number` string of a block returned by the RPC endpoint.
MaxNumLen == 3
\* Longest transaction list of a block.
MaxTxs == 3
\* Largest block number a /block request carries.
MaxRequest == 1

(* ------------------------- values and results -------------------------- *)

\* Optional[int]: None, or an integer.
None == [some |-> FALSE, v |-> 0]
Some(n) == [some |-> TRUE, v |-> n]

Ok(v) == [ok |-> TRUE, val |-> v]
Raise(e, m) == [ok |-> FALSE, exc |-> e, msg |-> m]

\* JSON values of a field that dict.get() reads: the key is absent, its
\* value is null, or it is a string.
JAbsent == [t |-> "absent", s |-> ""]
JNull == [t |-> "null", s |-> ""]
JStr(x) == [t |-> "str", s |-> x]

\* dict.get(key) gives None for an absent key and for a JSON null.
IsNone(j) == j.t \in {"absent", "null"}

(* --------------------------- hex_block_number -------------------------- *)

HexChars == <<"0", "1", "2", "3", "4", "5", "6", "7",
              "8", "9", "a", "b", "c", "d", "e", "f">>

RECURSIVE HexDigits(_)
\* The digits Python's hex() prints for n >= 0, most significant first.
HexDigits(n) ==
    IF n < 16 THEN <<HexChars[n + 1]>>
    ELSE HexDigits(n \div 16) \o <<HexChars[(n % 16) + 1]>>

\* hex(n) for n >= 0
hex(n) == <<"0", "x">> \o HexDigits(n)

Latest == <<"l", "a", "t", "e", "s", "t">>

hex_block_number_unchecked(block_number) ==
    IF ~block_number.some THEN Ok(Latest)
    ELSE IF block_number.v < 0 THEN Ok(<<"-">> \o hex(0 - block_number.v))
    ELSE Ok(hex(block_number.v))

hex_block_number_padded(block_number) ==
    IF ~block_number.some THEN Ok(Latest)
    ELSE IF block_number.v < 0
         THEN Raise("ValueError", [text |-> "Block number cannot be negative",
                                 payload |-> JAbsent])
    ELSE Ok(<<"0", "x">> \o HexDigits(block_number.v \div 16)
                         \o <<HexChars[(block_number.v % 16) + 1]>>)

hex_block_number(block_number) ==
    IF ~block_number.some THEN Ok(Latest)
    ELSE IF block_number.v < 0
         THEN Raise("ValueError", [text |-> "Block number cannot be negative",
                                 payload |-> JAbsent])
    ELSE Ok(hex(block_number.v))

(* ------------------------------ int(s, 16) ----------------------------- *)

UpperHexChars == <<"0", "1", "2", "3", "4", "5", "6", "7",
                   "8", "9", "A", "B", "C", "D", "E", "F">>

\* The value of one base-16 digit, -1 for a character that is none.
DigitValue(c) ==
    IF \E i \in 1..16 : HexChars[i] = c
    THEN (CHOOSE i \in 1..16 : HexChars[i] = c) - 1
    ELSE IF \E i \in 1..16 : UpperHexChars[i] = c
    THEN (CHOOSE i \in 1..16 : UpperHexChars[i] = c) - 1
    ELSE -1

RECURSIVE DigitsValue(_)
DigitsValue(ds) ==
    IF ds = <<>> THEN 0
    ELSE 16 * DigitsValue(SubSeq(ds, 1, Len(ds) - 1)) + DigitValue(ds[Len(ds)])

\* int(s, 16) on a string of hex digits, "x", "X" and other letters: an
\* optional "0x"/"0X" prefix, then at least one base-16 digit and nothing
\* else.  (Signs, blanks and underscores, which int() also accepts in
\* places, are outside the alphabet of the model.)
int16(s) ==
    LET prefixed == Len(s) >= 2 /\ s[1] = "0" /\ s[2] \in {"x", "X"}
        body == IF prefixed THEN SubSeq(s, 3, Len(s)) ELSE s
    IN  IF body = <<>> \/ \E i \in 1..Len(body) : DigitValue(body[i]) < 0
        THEN Raise("ValueError", [text |-> "invalid literal for int() with base 16",
                                  payload |-> JAbsent])
        ELSE Ok(DigitsValue(body))

(* ----------------------------- process_block --------------------------- *)

\* The block's "number" field as the JSON decoder delivers it: absent,
\* null, a string (s) or an integer (n).
NumAbsent == [t |-> "absent", s |-> <<>>, n |-> 0]
NumNull == [t |-> "null", s |-> <<>>, n |-> 0]
NumStr(x) == [t |-> "str", s |-> x, n |-> 0]
NumInt(k) == [t |-> "int", s |-> <<>>, n |-> k]

\* Python truthiness of block.get("number")
Truthy(num) ==
    \/ num.t = "str" /\ num.s # <<>>
    \/ num.t = "int" /\ num.n # 0

\* int(block["number"], 16) if block.get("number") else None
block_number_of(num) ==
    IF ~Truthy(num) THEN Ok(None)
    ELSE IF num.t = "int"
         THEN Raise("TypeError", [text |-> "int() can't convert non-string with explicit base",
                                 payload |-> JAbsent])
    ELSE LET r == int16(num.s)
         IN  IF r.ok THEN Ok(Some(r.val)) ELSE r

EmptyCounter == [k \in {} |-> 0]

\* Counter()[k] += 1
Inc(c, k) ==
    IF k \in DOMAIN c THEN [c EXCEPT ![k] = @ + 1] ELSE c @@ (k :> 1)

count_sender_any(senders, tx) ==
    IF tx.from.t = "str" THEN Inc(senders, tx.from.s) ELSE senders

\* if sender: senders[sender] += 1
count_sender(senders, tx) ==
    IF tx.from.t = "str" /\ tx.from.s # "" THEN Inc(senders, tx.from.s)
    ELSE senders

receiver_key_verbatim(tx) == tx.to.s

\* receiver_key = "null" if receiver is None else receiver
receiver_key(tx) == IF IsNone(tx.to) THEN "null" ELSE tx.to.s

count_receiver(receivers, tx) == Inc(receivers, receiver_key(tx))

RECURSIVE count_loop(_, _, _)
\* for tx in txs: ...   (returns the two counters)
count_loop(txs, senders, receivers) ==
    IF txs = <<>> THEN [senders |-> senders, receivers |-> receivers]
    ELSE count_loop(Tail(txs),
                    count_sender(senders, Head(txs)),
                    count_receiver(receivers, Head(txs)))

\* block.get("transactions", [])
transactions_of(blk) == IF blk.has_txs THEN blk.transactions ELSE <<>>

\* A decoded JSON value handed to process_block: a dict (its fields in
\* dict), or something else.
NoDict == [number |-> NumAbsent, hash |-> JAbsent,
           has_txs |-> FALSE, transactions |-> <<>>]
JDict(d) == [t |-> "object", dict |-> d]
JOther(tag) == [t |-> tag, dict |-> NoDict]

process_block(blk) ==
    IF blk.t # "object"
    THEN Raise("AttributeError", [text |-> "object has no attribute 'get'",
                                  payload |-> JAbsent])
    ELSE
    LET txs == transactions_of(blk.dict)
        counts == count_loop(txs, EmptyCounter, EmptyCounter)
        bn == block_number_of(blk.dict.number)
    IN  IF ~bn.ok THEN bn
        ELSE Ok([block_number |-> bn.val,
                 block_hash |-> IF IsNone(blk.dict.hash) THEN JNull
                                ELSE blk.dict.hash,
                 total_transactions |-> Len(txs),
                 by_sender |-> counts.senders,
                 by_receiver |-> counts.receivers])

(* ------------------------------- call_rpc ------------------------------ *)

\* What requests.post delivers: the connection is refused, the timeout
\* elapses, or an HTTP response arrives with a status and a body.
\* A body is undecodable ("invalid") or decodes to a number, true, false
\* or null ("number"), a string (its characters in text), a list (its
\* elements, strings, in items) or an object (its error and result fields).
NoBody == [json |-> "none", text |-> <<>>, items |-> <<>>,
           error |-> JAbsent, result |-> JOther("absent")]
Refused == [kind |-> "refused", status_code |-> 0, body |-> NoBody]
\* The timeout elapses while connecting (nothing was sent) ...
ConnectTimedOut == [kind |-> "connect_timeout", status_code |-> 0, body |-> NoBody]
\* ... or while waiting for the response to the request that was sent.
TimedOut == [kind |-> "timeout", status_code |-> 0, body |-> NoBody]
Http(code, body) == [kind |-> "http", status_code |-> code, body |-> body]

raise_for_status_5xx(code) ==
    IF 500 <= code /\ code < 600
    THEN Raise("HTTPError", [text |-> "HTTP error", code |-> code])
    ELSE Ok(code)

\* Response.raise_for_status(): raises HTTPError for 4xx and 5xx.
raise_for_status(code) ==
    IF 400 <= code /\ code < 600
    THEN Raise("HTTPError", [text |-> "HTTP error", code |-> code])
    ELSE Ok(code)

\* Lines 40-44: the POST and the status check, any RequestException
\* wrapped in RpcError.
post(resp) ==
    IF resp.kind # "http"
    THEN Raise("RpcError", [text |-> "Network or HTTP error while calling RPC",
                            payload |-> JStr(resp.kind)])
    ELSE IF ~raise_for_status(resp.status_code).ok
    THEN Raise("RpcError", [text |-> "Network or HTTP error while calling RPC",
                            payload |-> JStr("HTTPError")])
    ELSE Ok(resp.body)

\* Response.json(): JSONDecodeError is a ValueError.
response_json(body) ==
    IF body.json = "invalid"
    THEN Raise("ValueError", [text |-> "Expecting value", payload |-> JAbsent])
    ELSE Ok(body)

ErrorKey == <<"e", "r", "r", "o", "r">>

\* "error" in data, for data a string: a substring test.
InString(text) ==
    \E i \in 1..(Len(text) - Len(ErrorKey) + 1) :
        SubSeq(text, i, i + Len(ErrorKey) - 1) = ErrorKey

\* "error" in data, for data a list: an element test.
InList(items) == \E i \in 1..Len(items) : items[i] = "error"

\* Lines 48-51 on the decoded body.  `"error" in data` raises TypeError on
\* a value that is not iterable, is a substring test on a string, an
\* element test on a list and a key test on an object; where it is true,
\* data['error'] raises TypeError on a string or a list; where it is
\* false, data.get raises AttributeError on a string or a list.
decode_result(data) ==
    IF data.json = "number"
    THEN Raise("TypeError", [text |-> "argument is not iterable", payload |-> JAbsent])
    ELSE IF data.json = "string"
    THEN IF InString(data.text)
         THEN Raise("TypeError", [text |-> "string indices must be integers",
                                  payload |-> JAbsent])
         ELSE Raise("AttributeError", [text |-> "object has no attribute 'get'",
                                       payload |-> JAbsent])
    ELSE IF data.json = "list"
    THEN IF InList(data.items)
         THEN Raise("TypeError", [text |-> "list indices must be integers or slices",
                                  payload |-> JAbsent])
         ELSE Raise("AttributeError", [text |-> "object has no attribute 'get'",
                                       payload |-> JAbsent])
    ELSE IF data.error.t # "absent"
    THEN Raise("RpcError", [text |-> "RPC error", payload |-> data.error])
    ELSE Ok(data.result)

call_rpc(resp) ==
    LET r == post(resp)
    IN  IF ~r.ok THEN r
        ELSE LET d == response_json(r.val)
             IN  IF ~d.ok THEN d ELSE decode_result(d.val)

(* ------------------------------ fetch_block ---------------------------- *)

fetch_block_tolerant(block_number, resp) ==
    LET id == hex_block_number(block_number)
    IN  IF ~id.ok THEN id
        ELSE LET result == call_rpc(resp)
             IN  IF ~result.ok THEN result
                 ELSE IF result.val.t \in {"absent", "null"}
                 THEN Ok(JDict(NoDict))
                 ELSE Ok(result.val)

fetch_block(block_number, resp) ==
    LET id == hex_block_number(block_number)
    IN  IF ~id.ok THEN id
        ELSE LET result == call_rpc(resp)
             IN  IF ~result.ok THEN result
                 ELSE IF result.val.t \in {"absent", "null"}
                 THEN Raise("RpcError", [text |-> "No block found for",
                                         payload |-> [t |-> "id", s |-> id.val]])
                 ELSE Ok(result.val)

(* ------------------------------- get_block ----------------------------- *)

\* No summary / no exception yet (of the shape of a summary / an exception).
NoSummary ==
    [block_number |-> None, block_hash |-> JNull, total_transactions |-> -1,
     by_sender |-> EmptyCounter, by_receiver |-> EmptyCounter]
NoDetail ==
    [ok |-> TRUE, exc |-> "none", msg |-> [text |-> "", payload |-> JAbsent]]

\* The except clauses of get_block, in order.
status_of(exc) ==
    IF exc = "RpcError" THEN 502
    ELSE IF exc = "ValueError" THEN 400
    ELSE 500

get_block(n, resp) ==
    LET f == fetch_block(n, resp)
    IN  IF ~f.ok
        THEN [status_code |-> status_of(f.exc), detail |-> f,
              summary |-> NoSummary, summarized |-> FALSE]
        ELSE LET p == process_block(f.val)
             IN  IF ~p.ok
                 THEN [status_code |-> status_of(p.exc), detail |-> p,
                       summary |-> NoSummary, summarized |-> TRUE]
                 ELSE [status_code |-> 200, detail |-> NoDetail,
                       summary |-> p.val, summarized |-> TRUE]

(* ------------------------------- inputs ------------------------------- *)

\* Characters of a block's `number` string: base-16 digits of either case,
\* the prefix letter, and a letter that is no digit.
NumAlphabet == {"0", "1", "f", "F", "x", "g"}

RECURSIVE StringsUpTo(_)
StringsUpTo(n) ==
    IF n = 0 THEN {<<>>}
    ELSE LET S == StringsUpTo(n - 1)
         IN  S \cup {Append(x, c) : x \in {y \in S : Len(y) = n - 1},
                                    c \in NumAlphabet}

NumberFields ==
    {NumAbsent, NumNull, NumInt(0), NumInt(7)}
        \cup {NumStr(x) : x \in StringsUpTo(MaxNumLen)}

SampleNumbers == {NumStr(<<"0", "x", "1", "f">>), NumStr(<<"g">>)}

Froms == {JAbsent, JStr(""), JStr("A"), JStr("C")}
Tos == {JAbsent, JNull, JStr("B"), JStr("null")}
Txs == [from : Froms, to : Tos]

RECURSIVE TxSeqs(_)
TxSeqs(n) ==
    IF n = 0 THEN {<<>>}
    ELSE LET S == TxSeqs(n - 1)
         IN  S \cup {Append(x, tx) : x \in {y \in S : Len(y) = n - 1},
                                     tx \in Txs}

Hashes == {JAbsent, JStr("H")}

\* Blocks: every `number` field with no or an empty transaction list, and
\* every transaction list with a sample of `number` fields.
Blocks ==
    [number : NumberFields, hash : Hashes, has_txs : BOOLEAN,
     transactions : {<<>>}]
        \cup [number : SampleNumbers, hash : {JStr("H")}, has_txs : {TRUE},
              transactions : TxSeqs(MaxTxs)]

SampleBlock ==
    [number |-> NumStr(<<"0", "x", "1">>), hash |-> JStr("H"), has_txs |-> TRUE,
     transactions |-> <<[from |-> JStr("A"), to |-> JStr("B")]>>]

\* Values process_block may be handed.
BlockValues == {JDict(b) : b \in Blocks} \cup {JOther("str")}

\* Blocks the RPC endpoint answers a /block request with: a sample of
\* `number` fields and of transaction lists.
PipeNumbers ==
    {NumAbsent, NumNull, NumStr(<<>>), NumStr(<<"0", "x", "1", "f">>),
     NumStr(<<"F">>), NumStr(<<"x">>), NumStr(<<"0", "x">>), NumInt(0), NumInt(7)}
PipeTxSeqs ==
    {<<>>,
     <<[from |-> JStr("A"), to |-> JStr("B")]>>,
     <<[from |-> JAbsent, to |-> JNull]>>}
PipeBlocks ==
    [number : PipeNumbers, hash : {JStr("H")}, has_txs : {TRUE},
     transactions : {<<>>}]
        \cup [number : {NumStr(<<"0", "x", "1", "f">>)}, hash : {JStr("H")},
              has_txs : {TRUE}, transactions : PipeTxSeqs]
        \cup {NoDict}
PipeBlockValues == {JDict(b) : b \in PipeBlocks} \cup {JOther("str")}

\* The `result` field of a response object.
SmallResults == {JOther("absent"), JOther("null"), JOther("str"),
                 JDict(SampleBlock)}
Errors == {JNull, JStr("E1"), JStr("E2")}

\* Bodies that decode to a string: "", "abc", "error", "an error".
BodyTexts == {<<>>, <<"a", "b", "c">>, ErrorKey, <<"a", "n", " ">> \o ErrorKey}
\* Bodies that decode to a list: [], ["abc"], ["error"], ["abc", "error"].
BodyLists == {<<>>, <<"abc">>, <<"error">>, <<"abc", "error">>}

Bodies ==
    [json : {"invalid", "number"}, text : {<<>>}, items : {<<>>},
     error : {JAbsent}, result : {JOther("absent")}]
    \cup [json : {"string"}, text : BodyTexts, items : {<<>>},
          error : {JAbsent}, result : {JOther("absent")}]
    \cup [json : {"list"}, text : {<<>>}, items : BodyLists,
          error : {JAbsent}, result : {JOther("absent")}]
    \cup [json : {"object"}, text : {<<>>}, items : {<<>>},
          error : Errors \cup {JAbsent}, result : SmallResults]
    \cup [json : {"object"}, text : {<<>>}, items : {<<>>},
          error : {JAbsent}, result : PipeBlockValues]

Statuses == {200, 304, 404, 503}

Responses == {Refused, ConnectTimedOut, TimedOut}
                \cup {Http(c, b) : c \in Statuses, b \in Bodies}

\* The `number` query parameter of a request.
RequestNumbers == {None} \cup {Some(n) : n \in (0 - MaxNegative)..MaxRequest}

\* The argument of a direct hex_block_number call.
HexArguments == {None} \cup {Some(n) : n \in (0 - MaxNegative)..MaxNumber}

(* ------------------------- the /block request -------------------------- *)

NoId == <<>>
NoWire == [sent |-> <<>>, redirects |-> 0, method |-> "POST"]

\* The request being attempted reached the endpoint: a response (or the
\* wait for one) follows a request that was sent; a refused connection and
\* a connect timeout leave nothing on the wire.
WasSent(resp) == resp.kind \in {"http", "timeout", "redirects"}

\* The wire after the attempted request ended with outcome resp.
wire_after(w, resp) ==
    IF WasSent(resp) THEN [w EXCEPT !.sent = Append(@, w.method)] ELSE w

\* requests follows at most this many redirects per call (the default
\* Session.max_redirects that requests.post runs with).
MaxRedirects == 30

\* Statuses requests follows when the response carries a Location header.
RedirectStatuses == {301, 302, 303, 307, 308}

\* The method of the request that follows a redirect: 307 and 308 repeat
\* the request, 302 and 303 turn it into a GET, 301 turns a POST into a GET.
rebuild_method(method, code) ==
    IF code \in {307, 308} THEN method ELSE "GET"

\* The redirect limit is exceeded: requests raises TooManyRedirects.
TooManyRedirects == [kind |-> "redirects", status_code |-> 0, body |-> NoBody]
NoResponse == [kind |-> "none", status_code |-> 0, body |-> NoBody]
NoRet == [ok |-> TRUE, val |-> "none"]

Init ==
    /\ pc = "idle"
    /\ number = None
    /\ block_id = NoId
    /\ rpc_calls = 0
    /\ wire = NoWire
    /\ inflight = FALSE
    /\ response = NoResponse
    /\ status = 0
    /\ detail = NoDetail
    /\ summary = NoSummary
    /\ summarized = FALSE
    /\ block = JOther("none")
    /\ ret = NoRet

\* The response of get_block is produced.
Respond(n, resp) ==
    LET r == get_block(n, resp)
    IN  /\ status' = r.status_code
        /\ detail' = r.detail
        /\ summary' = r.summary
        /\ summarized' = r.summarized
        /\ pc' = "done"

\* GET /block?number=n arrives: fetch_block translates the number and, if
\* that does not raise, call_rpc calls requests.post, which starts to
\* connect; nothing is on the wire yet.
Receive(n) ==
    /\ pc = "idle"
    /\ number' = n
    /\ LET id == hex_block_number(n)
       IN  IF id.ok
           THEN /\ block_id' = id.val
                /\ rpc_calls' = rpc_calls + 1
                /\ wire' = NoWire
                /\ inflight' = TRUE
                /\ pc' = "awaiting"
                /\ UNCHANGED <<status, detail, summary, summarized>>
           ELSE /\ Respond(n, NoResponse)
                /\ UNCHANGED <<block_id, rpc_calls, wire, inflight>>
    /\ UNCHANGED <<response, block, ret>>

RpcCompleteRetry(resp) ==
    /\ pc = "awaiting"
    /\ response' = resp
    /\ IF ~post(resp).ok /\ rpc_calls < 2
       THEN /\ rpc_calls' = rpc_calls + 1
            /\ wire' = wire_after(wire, resp)
            /\ UNCHANGED <<inflight, pc, status, detail, summary, summarized>>
       ELSE /\ inflight' = FALSE
            /\ wire' = wire_after(wire, resp)
            /\ Respond(number, resp)
            /\ UNCHANGED rpc_calls
    /\ UNCHANGED <<number, block_id, block, ret>>

\* requests.post returns the final response or raises; the rest of
\* call_rpc, fetch_block and get_block runs and the response is produced.
RpcComplete(resp) ==
    /\ pc = "awaiting"
    /\ inflight' = FALSE
    /\ response' = resp
    /\ wire' = wire_after(wire, resp)
    /\ Respond(number, resp)
    /\ UNCHANGED <<number, block_id, rpc_calls, block, ret>>

\* The request being attempted was sent and the endpoint answers it with a
\* redirect status and a Location: requests.post (allow_redirects at its
\* default) goes on to attempt the request with the rebuilt method (the
\* POST again after a 307 or 308), unless MaxRedirects redirects were
\* followed already, and then raises TooManyRedirects, which call_rpc
\* wraps in RpcError.
Redirect(code) ==
    /\ pc = "awaiting"
    /\ IF wire.redirects >= MaxRedirects
       THEN /\ inflight' = FALSE
            /\ response' = TooManyRedirects
            /\ wire' = wire_after(wire, TooManyRedirects)
            /\ Respond(number, TooManyRedirects)
       ELSE /\ wire' = [sent |-> Append(wire.sent, wire.method),
                        redirects |-> wire.redirects + 1,
                        method |-> rebuild_method(wire.method, code)]
            /\ UNCHANGED <<inflight, response, pc, status, detail, summary,
                           summarized>>
    /\ UNCHANGED <<number, block_id, rpc_calls, block, ret>>

\* The response is sent; nothing of the request outlives it.
Finish ==
    /\ pc = "done"
    /\ pc' = "idle"
    /\ number' = None
    /\ block_id' = NoId
    /\ rpc_calls' = 0
    /\ wire' = NoWire
    /\ inflight' = FALSE
    /\ response' = NoResponse
    /\ status' = 0
    /\ detail' = NoDetail
    /\ summary' = NoSummary
    /\ summarized' = FALSE
    /\ UNCHANGED <<block, ret>>

\* The transport delivers some outcome to the waiting call.
Deliver == pc = "awaiting" /\ \E resp \in Responses : RpcComplete(resp)

Next ==
    \/ \E n \in RequestNumbers : Receive(n)
    \/ Deliver
    \/ \E code \in RedirectStatuses : Redirect(code)
    \/ Finish

Spec == Init /\ [][Next]_vars

(* -------------------- direct calls of hex_block_number ----------------- *)

InitHex ==
    /\ pc = "call"
    /\ number \in HexArguments
    /\ block_id = NoId
    /\ rpc_calls = 0
    /\ wire = NoWire
    /\ inflight = FALSE
    /\ response = NoResponse
    /\ status = 0
    /\ detail = NoDetail
    /\ summary = NoSummary
    /\ summarized = FALSE
    /\ block = JOther("none")
    /\ ret = NoRet

CallHex ==
    /\ pc = "call"
    /\ ret' = hex_block_number(number)
    /\ pc' = "returned"
    /\ UNCHANGED <<number, block_id, rpc_calls, wire, inflight, response, status,
                   detail, summary, summarized, block>>

NextHex == CallHex

SpecHex == InitHex /\ [][NextHex]_vars

(* ---------------------- direct calls of process_block ------------------ *)

InitSummarize ==
    /\ pc = "call"
    /\ number = None
    /\ block_id = NoId
    /\ rpc_calls = 0
    /\ wire = NoWire
    /\ inflight = FALSE
    /\ response = NoResponse
    /\ status = 0
    /\ detail = NoDetail
    /\ summary = NoSummary
    /\ summarized = FALSE
    /\ block \in BlockValues
    /\ ret = NoRet

CallSummarize ==
    /\ pc = "call"
    /\ ret' = process_block(block)
    /\ pc' = "returned"
    /\ UNCHANGED <<number, block_id, rpc_calls, wire, inflight, response, status,
                   detail, summary, summarized, block>>

NextSummarize == CallSummarize

SpecSummarize == InitSummarize /\ [][NextSummarize]_vars

(* =============================== claims =============================== *)

Negative(n) == n.some /\ n.v < 0

\* 4xx and 5xx, the statuses raise_for_status() rejects.
ErrorStatus(code) == 400 <= code /\ code < 600

\* C1: a /block request with a negative `number` is answered 400 and makes
\* no outbound RPC call: the request is rejected before call_rpc is reached.
C1_NegativeRejectedBeforeRpc ==
    Negative(number) =>
        /\ pc = "done"
        /\ status = 400
        /\ rpc_calls = 0
        /\ wire = NoWire
        /\ ~inflight
        /\ response = NoResponse
        /\ detail.exc = "ValueError"

C1_Witness ==
    pc = "done" /\ number = Some(0 - MaxNegative) /\ status = 400 /\ rpc_calls = 0

\* C2: status 400 is returned only when the caller-supplied block number is
\* negative, never because of what the RPC endpoint returned; every failure
\* that is neither a negative number nor an RpcError is answered 500.
C2_Only400ForNegativeNumber ==
    pc = "done" =>
        /\ status = 400 => Negative(number)
        /\ (status \notin {200, 502} /\ ~Negative(number)) => status = 500

\* C3 as stated: with an absent or non-negative `number`, a transport-level
\* failure (refused, timed out, or any non-2xx status) is answered 502
\* with an error body, never 200, 400 or 500.
C3_Original_Non2xxIs502 ==
    (/\ pc = "done"
     /\ ~Negative(number)
     /\ \/ response.kind \in {"refused", "connect_timeout", "timeout"}
        \/ response.kind = "http"
             /\ ~(200 <= response.status_code /\ response.status_code < 300))
        => (status = 502 /\ detail # NoDetail)

\* C3 amended: with an absent or non-negative `number`, a refused
\* connection, an elapsed timeout or an HTTP status of 4xx or 5xx is answered
\* 502 with an error body (never 200, 400 or 500), whatever the body holds,
\* and the request is over.
C3_TransportFailureIs502 ==
    (/\ pc = "done"
     /\ ~Negative(number)
     /\ \/ response.kind \in {"refused", "connect_timeout", "timeout"}
        \/ response.kind = "http" /\ ErrorStatus(response.status_code))
        => /\ status = 502
           /\ ~inflight
           /\ summary = NoSummary
           /\ ~summarized
           /\ detail.exc = "RpcError"
           /\ detail.msg.text = "Network or HTTP error while calling RPC"

C3_Witness ==
    /\ pc = "done"
    /\ number = Some(1)
    /\ response.kind = "http"
    /\ response.status_code = 404
    /\ response.body.json = "object"
    /\ response.body.result.t = "object"
    /\ status = 502

\* C4: when the RPC call passes the transport check and the body is an
\* object with no `error` field and a null or absent `result`, fetch_block
\* raises its "No block found" RpcError, process_block is never applied,
\* and the response status is 502.
C4_NullResultIs502 ==
    (/\ pc = "done"
     /\ ~Negative(number)
     /\ response.kind = "http"
     /\ ~ErrorStatus(response.status_code)
     /\ response.body.json = "object"
     /\ response.body.error.t = "absent"
     /\ response.body.result.t \in {"absent", "null"})
        => /\ status = 502
           /\ ~summarized
           /\ summary = NoSummary
           /\ detail.exc = "RpcError"
           /\ detail.msg.text = "No block found for"
           /\ detail.msg.payload.s = block_id

C4_Witness ==
    /\ pc = "done"
    /\ number = Some(1)
    /\ response.kind = "http"
    /\ response.status_code = 200
    /\ response.body.json = "object"
    /\ response.body.error.t = "absent"
    /\ response.body.result.t = "null"
    /\ status = 502
    /\ ~summarized

LowerHex == {HexChars[i] : i \in 1..16}

\* C5: hex_block_number maps None to "latest" and a non-negative n to "0x"
\* followed by the lowercase base-16 digits of n without leading zeros
\* ("0x0" for 0); distinct numbers get distinct identifiers and no number
\* gets "latest".
C5_HexBlockNumber ==
    pc = "returned" =>
        /\ ~number.some => (ret.ok /\ ret.val = Latest)
        /\ (number.some /\ number.v >= 0) =>
              /\ ret.ok
              /\ Len(ret.val) >= 3
              /\ ret.val[1] = "0" /\ ret.val[2] = "x"
              /\ \A i \in 3..Len(ret.val) : ret.val[i] \in LowerHex
              /\ Len(ret.val) = 3 \/ ret.val[3] # "0"
              /\ int16(ret.val) = Ok(number.v)
              /\ number.v = 0 => ret.val = <<"0", "x", "0">>
              /\ ret.val # Latest
              /\ \A m \in 0..MaxNumber :
                    m # number.v => hex_block_number(Some(m)).val # ret.val

C5_Witness ==
    pc = "returned" /\ number = Some(255) /\ ret.ok /\ ret.val = <<"0", "x", "f", "f">>

\* The receiver key the summary documents for a transaction.
KeyOf(tx) == IF tx.to.t \in {"absent", "null"} THEN "null" ELSE tx.to.s

HasSender(tx) == tx.from.t = "str" /\ tx.from.s # ""

\* C6: process_block returns total_transactions = the length of the
\* transaction list (0 when absent), by_sender[a] = the number of
\* transactions sent by the non-empty address a, by_receiver[k] = the number
\* of transactions whose receiver key is k (absent/null `to` under "null"),
\* and the key sets are exactly the values observed.
C6_SummaryCounts ==
    (pc = "returned" /\ block.t = "object" /\ ret.ok) =>
        LET txs == IF block.dict.has_txs THEN block.dict.transactions ELSE <<>>
            idx == 1..Len(txs)
            out == ret.val
        IN  /\ out.total_transactions = Len(txs)
            /\ DOMAIN out.by_sender = {txs[i].from.s : i \in {j \in idx : HasSender(txs[j])}}
            /\ \A a \in DOMAIN out.by_sender :
                  out.by_sender[a] =
                      Cardinality({i \in idx : HasSender(txs[i]) /\ txs[i].from.s = a})
            /\ DOMAIN out.by_receiver = {KeyOf(txs[i]) : i \in idx}
            /\ \A k \in DOMAIN out.by_receiver :
                  out.by_receiver[k] = Cardinality({i \in idx : KeyOf(txs[i]) = k})
            /\ txs = <<>> => (out.by_sender = EmptyCounter /\ out.by_receiver = EmptyCounter)

C6_Witness ==
    /\ pc = "returned"
    /\ block.t = "object"
    /\ block.dict.transactions = << [from |-> JStr("A"), to |-> JStr("B")],
                                    [from |-> JStr("A"), to |-> JNull],
                                    [from |-> JStr("C"), to |-> JStr("B")] >>
    /\ ret.ok
    /\ ret.val.total_transactions = 3
    /\ ret.val.by_sender = ("A" :> 2) @@ ("C" :> 1)
    /\ ret.val.by_receiver = ("B" :> 2) @@ ("null" :> 1)

\* C7: process_block never raises on the block's `number` field:
\* block_number is null when the field is absent or empty and the parsed
\* integer otherwise.
C7_NumberNeverRaises ==
    (pc = "returned" /\ block.t = "object") =>
        /\ ret.ok
        /\ (\/ block.dict.number.t \in {"absent", "null"}
            \/ (block.dict.number.t = "str" /\ block.dict.number.s = <<>>))
              => ret.val.block_number = None

\* The POSTs among the requests sent.
Posts(w) == Cardinality({i \in 1..Len(w.sent) : w.sent[i] = "POST"})

C9_ErrorPayloadSurfaced ==
    (/\ pc = "done"
     /\ response.kind = "http"
     /\ response.body.json = "object"
     /\ response.body.error.t # "absent")
        => /\ detail.exc = "RpcError"
           /\ detail.msg.text = "RPC error"
           /\ detail.msg.payload = response.body.error

RECURSIVE SumCounts(_)
SumCounts(c) ==
    IF DOMAIN c = {} THEN 0
    ELSE LET k == CHOOSE x \in DOMAIN c : TRUE
         IN  c[k] + SumCounts([y \in DOMAIN c \ {k} |-> c[y]])

\* C10 as stated: a transaction without a sender contributes to neither
\* map: both maps count only the transactions that have one.
C10_Original_NeitherMap ==
    (pc = "returned" /\ block.t = "object" /\ ret.ok) =>
        LET txs == IF block.dict.has_txs THEN block.dict.transactions ELSE <<>>
            idx == 1..Len(txs)
        IN  /\ ret.val.total_transactions = Len(txs)
            /\ SumCounts(ret.val.by_sender)
                  = Cardinality({i \in idx : HasSender(txs[i])})
            /\ SumCounts(ret.val.by_receiver)
                  = Cardinality({i \in idx : HasSender(txs[i])})

\* C10 amended: a transaction whose `from` is absent or empty adds no entry
\* and no count to by_sender; it is still counted in total_transactions and
\* in by_receiver under its receiver key, and it never makes process_block
\* raise (process_block raises exactly when the `number` field does).
C10_SenderlessOnlySkipsBySender ==
    (pc = "returned" /\ block.t = "object") =>
        LET txs == IF block.dict.has_txs THEN block.dict.transactions ELSE <<>>
            idx == 1..Len(txs)
            senderless == {i \in idx : ~HasSender(txs[i])}
        IN  /\ ret.ok <=> block_number_of(block.dict.number).ok
            /\ ret.ok =>
                  /\ ret.val.total_transactions = Len(txs)
                  /\ "" \notin DOMAIN ret.val.by_sender
                  /\ SumCounts(ret.val.by_sender) = Len(txs) - Cardinality(senderless)
                  /\ SumCounts(ret.val.by_receiver) = Len(txs)
                  /\ \A i \in senderless :
                        /\ KeyOf(txs[i]) \in DOMAIN ret.val.by_receiver
                        /\ ret.val.by_receiver[KeyOf(txs[i])]
                              >= Cardinality({j \in senderless :
                                                KeyOf(txs[j]) = KeyOf(txs[i])})

C10_Witness ==
    /\ pc = "returned"
    /\ block.t = "object"
    /\ block.dict.transactions = << [from |-> JAbsent, to |-> JStr("B")],
                                    [from |-> JStr(""), to |-> JAbsent] >>
    /\ ret.ok
    /\ ret.val.total_transactions = 2
    /\ ret.val.by_sender = EmptyCounter
    /\ ret.val.by_receiver = ("B" :> 1) @@ ("null" :> 1)

====
